---------------------------- MODULE Spec2Model ----------------------------
(***************************************************************************)
(* A model of the two variants of the BLE biosignal client.                *)
(*                                                                         *)
(*   bt_client.py     one asyncio program; the notification callback       *)
(*                    writes the CSV rows itself (specification SpecV1).   *)
(*   bt_client_v2.py  three threads: the GUI main thread, receive_data     *)
(*                    (the BLE session, producer) and update_plot (the     *)
(*                    consumer), joined by a queue.Queue and a             *)
(*                    threading.Event (specification Spec).                *)
(*                                                                         *)
(* Variables that carry the same name in both programs (hs_file, bp_file,  *)
(* hs_char, bp_char, start_time, server) are shared by the two models.     *)
(***************************************************************************)
EXTENDS Integers, Sequences, FiniteSets, TLC

(***************************************************************************)
(* Program constants.                                                      *)
(***************************************************************************)
SERVER_NAME == "ESP_SPP_SERVER"
HS_CHAR_UUID == "cdd4c6c4-7a3c-599b-324e-f93750d2f002"
BP_CHAR_UUID == "cdd4c6c4-7a3c-599b-324e-f93750d2f003"
VREF == 5
MAX_DATA_LEN == 200
ADC_RANGE == 4096

(***************************************************************************)
(* Bounds of the model.                                                    *)
(***************************************************************************)
\* notifications delivered in one run of Spec / SpecV1
MaxNotif == 2
\* the clock (time.perf_counter) ticks at most this often
MaxTime == 1
\* devices in one scan result
MaxScan == 2
\* notifications delivered in one run of SpecWindow
MaxLongRun == 203
\* readings the scripted producer of SpecWindow leaves unconsumed
MaxBacklog == 2
\* notifications of a SpecWindow run whose characteristic is a free choice
FreeRun == 2
\* bytes in one payload of SpecDecoder, and notifications in one of its runs
MaxPayloadLen == 2
MaxDecoded == 1

(***************************************************************************)
(* Values.                                                                 *)
(***************************************************************************)
\* Python's None for a device, a characteristic, a time
NoneDev == [name |-> "None", addr |-> 0]
NoneChar == [uuid |-> "None", handle |-> 0]
NoTime == -1

TargetA == [name |-> SERVER_NAME, addr |-> 1]
OtherDev == [name |-> "OTHER", addr |-> 3]
Devices == {TargetA, OtherDev}

\* the scan results: sequences of distinct devices
Scans ==
    {s \in UNION {[1..n -> Devices] : n \in 0..MaxScan} :
        \A i, j \in DOMAIN s : i /= j => s[i] /= s[j]}

HsChar == [uuid |-> HS_CHAR_UUID, handle |-> 1]
BpChar == [uuid |-> BP_CHAR_UUID, handle |-> 2]
OtherChar == [uuid |-> "other", handle |-> 3]

\* client.services of the peripheral: a sequence of services, each a
\* sequence of characteristics
GattTables ==
    { << <<HsChar>>, <<OtherChar, BpChar>> >>,
      << <<HsChar, OtherChar>> >>,
      << <<OtherChar>>, <<BpChar>> >>,
      << >> }

\* the notification payloads: 0, 1 and 2 bytes
PayloadSeq == << << >>, <<1>>, <<1, 2>> >>
Payloads == {PayloadSeq[i] : i \in DOMAIN PayloadSeq}

Kinds == {"HS", "BP"}

(***************************************************************************)
(* Pure functions of the programs.                                         *)
(***************************************************************************)
\* a slip: byteorder='big'
RECURSIVE from_bytes_big(_)
from_bytes_big(data) ==
    IF data = << >> THEN 0
    ELSE Head(data) * 256^(Len(data) - 1) + from_bytes_big(Tail(data))

\* int.from_bytes(bytes=data, byteorder='little', signed=False)
RECURSIVE from_bytes(_)
from_bytes(data) ==
    IF data = << >> THEN 0
    ELSE Head(data) + 256 * from_bytes(Tail(data))

\* the scan loop: server = device for every device whose name matches
RECURSIVE discover_server_from(_, _)
discover_server_from(devices, server) ==
    IF devices = << >> THEN server
    ELSE discover_server_from(Tail(devices),
             IF Head(devices).name = SERVER_NAME THEN Head(devices) ELSE server)

\* a slip: the loop stops at the first device whose name matches
RECURSIVE discover_server_first(_)
discover_server_first(devices) ==
    IF devices = << >> THEN NoneDev
    ELSE IF Head(devices).name = SERVER_NAME THEN Head(devices)
    ELSE discover_server_first(Tail(devices))

discover_server(devices) == discover_server_from(devices, NoneDev)

\* for service in client.services: for char in service.characteristics:
\*     if char.uuid == uuid: found = char
RECURSIVE find_in_service(_, _, _)
find_in_service(chars, uuid, found) ==
    IF chars = << >> THEN found
    ELSE find_in_service(Tail(chars), uuid,
             IF Head(chars).uuid = uuid THEN Head(chars) ELSE found)

RECURSIVE find_char_from(_, _, _)
find_char_from(svcs, uuid, found) ==
    IF svcs = << >> THEN found
    ELSE find_char_from(Tail(svcs), uuid, find_in_service(Head(svcs), uuid, found))

find_hs_service(svcs) == find_char_from(svcs, HS_CHAR_UUID, NoneChar)
find_bp_service(svcs) == find_char_from(svcs, BP_CHAR_UUID, NoneChar)

\* a slip: the elif tests the heart-sound identifier again
sig_type_same_uuid(char) ==
    IF char.uuid = HS_CHAR_UUID THEN "HS"
    ELSE IF char.uuid = HS_CHAR_UUID THEN "BP"
    ELSE "None"

\* the if / elif / else of bt_client_v2.notification_callback
sig_type_of(char) ==
    IF char.uuid = HS_CHAR_UUID THEN "HS"
    ELSE IF char.uuid = BP_CHAR_UUID THEN "BP"
    ELSE "None"

\* a slip: a full deque drops the new item instead of its oldest
deque_append_keep_old(d, x) ==
    IF Len(d) >= MAX_DATA_LEN THEN d ELSE Append(d, x)

\* deque(maxlen=MAX_DATA_LEN).append(x): a full deque drops its oldest item
deque_append(d, x) ==
    IF Len(d) >= MAX_DATA_LEN THEN Append(Tail(d), x) ELSE Append(d, x)

\* a slip: a LifoQueue in place of the Queue
put_nowait_front(q, item) == <<item>> \o q

\* queue.put_nowait(item) on the unbounded Queue() of line 161
put_nowait(q, item) == Append(q, item)

\* queue.get_nowait() on a non-empty queue: the item, and the queue left
get_nowait_item(q) == Head(q)
get_nowait_rest(q) == Tail(q)

\* x / 4096.0 * VREF, kept exact as numerator and denominator
scaled(x) == <<x * VREF, ADC_RANGE>>

RECURSIVE scale_all(_)
scale_all(d) ==
    IF d = << >> THEN << >> ELSE <<scaled(Head(d))>> \o scale_all(Tail(d))

(***************************************************************************)
(* State.                                                                  *)
(***************************************************************************)
VARIABLES
    \* environment
    now,            \* time.perf_counter()
    connected,      \* client.is_connected
    subscribed,     \* characteristics with a registered notification callback
    \* bt_client_v2.py
    pcGui,          \* main thread: "gui" | "done" | "interrupted" | "off"
    pcRecv,         \* receive_data thread
    pcPlot,         \* update_plot thread
    stop_event,     \* threading.Event
    queue,          \* queue.Queue of (sig_type, val)
    cur,            \* update_plot: the (sig_type, val) just taken
    time_data, hs_data, bp_data,    \* update_plot: the deques
    series,         \* what dpg.configure_item last set, per series
    \* bt_client.py
    pcV1,           \* asyncio.run(main()) and its handlers
    \* both
    server, services, hs_char, bp_char, start_time,
    hs_file, bp_file,       \* "unopened" | "open" | "closed"
    hs_rows, bp_rows,       \* rows written through hs_log_writer / bp_log_writer
    closes,                 \* close() calls per file
    \* history
    notified,       \* <<char, data>> of every callback invocation
    sent,           \* every item put on the queue
    received,       \* every item taken from the queue
    sentAtStop,     \* Len(sent) when stop_event was set, else -1
    scanned         \* SpecLocator: what BleakScanner.discover() returns

envVars == <<now, connected, subscribed>>
v2Vars == <<pcGui, pcRecv, pcPlot, stop_event, queue, cur,
            time_data, hs_data, bp_data, series>>
sessVars == <<server, services, hs_char, bp_char>>
fileVars == <<hs_file, bp_file, hs_rows, bp_rows, closes>>
histVars == <<notified, sent, received, sentAtStop, scanned>>
plotVars == <<cur, time_data, hs_data, bp_data, series>>
vars == <<envVars, v2Vars, pcV1, sessVars, start_time, fileVars, histVars>>

NoItem == <<"None", 0>>
NoSeries == [x |-> << >>, y |-> << >>]

InitCommon ==
    /\ now = 0
    /\ connected = FALSE
    /\ subscribed = {}
    /\ stop_event = FALSE
    /\ queue = << >>
    /\ cur = NoItem
    /\ time_data = << >>
    /\ hs_data = << >>
    /\ bp_data = << >>
    /\ series = [heart_sound |-> NoSeries, blood_pressure |-> NoSeries]
    /\ server = NoneDev
    /\ services = << >>
    /\ hs_char = NoneChar
    /\ bp_char = NoneChar
    /\ start_time = NoTime
    /\ hs_rows = << >>
    /\ bp_rows = << >>
    /\ closes = [hs |-> 0, bp |-> 0]
    /\ notified = << >>
    /\ sent = << >>
    /\ received = << >>
    /\ sentAtStop = -1

\* bt_client_v2.py after both threads are started (lines 161-190)
Init ==
    /\ InitCommon
    /\ scanned = << >>
    /\ pcGui = "gui"
    /\ pcRecv = "discover"
    /\ pcPlot = "start"
    /\ pcV1 = "off"
    /\ hs_file = "unopened"
    /\ bp_file = "unopened"

(***************************************************************************)
(* Environment.                                                            *)
(***************************************************************************)
Tick ==
    /\ now < MaxTime
    /\ now' = now + 1
    /\ UNCHANGED <<connected, subscribed, v2Vars, pcV1, sessVars, start_time,
                   fileVars, histVars>>

\* the link to the peripheral is lost
LinkLoss ==
    /\ connected
    /\ subscribed /= {}
    /\ connected' = FALSE
    /\ UNCHANGED <<now, subscribed, v2Vars, pcV1, sessVars, start_time,
                   fileVars, histVars>>

(***************************************************************************)
(* bt_client_v2.py: receive_data.                                          *)
(***************************************************************************)
\* main, lines 101-106: discover_server and the return when nothing matches
RecvDiscoverOn(devices) ==
    /\ pcRecv = "discover"
    /\ server' = discover_server(devices)
    /\ pcRecv' = IF server' /= NoneDev THEN "connect" ELSE "exited"
    /\ UNCHANGED <<envVars, pcGui, pcPlot, stop_event, queue, plotVars, pcV1,
                   services, hs_char, bp_char, start_time, fileVars, histVars>>

RecvDiscover == \E devices \in Scans : RecvDiscoverOn(devices)

\* line 107: async with BleakClient(...) connects, or raises
RecvConnect ==
    /\ pcRecv = "connect"
    /\ \/ /\ \E table \in GattTables : services' = table
          /\ connected' = TRUE
          /\ pcRecv' = "find"
       \/ /\ pcRecv' = "failed"
          /\ UNCHANGED <<connected, services>>
    /\ UNCHANGED <<now, subscribed, pcGui, pcPlot, stop_event, queue, plotVars,
                   pcV1, server, hs_char, bp_char, start_time, fileVars, histVars>>

\* lines 110-112: extract_all_services only logs; the two finds
RecvFind ==
    /\ pcRecv = "find"
    /\ hs_char' = find_hs_service(services)
    /\ bp_char' = find_bp_service(services)
    /\ pcRecv' = "notify_hs"
    /\ UNCHANGED <<envVars, pcGui, pcPlot, stop_event, queue, plotVars, pcV1,
                   server, services, start_time, fileVars, histVars>>

\* line 113: start_notify(hs_char, ...) raises for None; the exception leaves
\* the async with, which disconnects, and ends the thread
RecvNotifyHS ==
    /\ pcRecv = "notify_hs"
    /\ IF hs_char = NoneChar
       THEN /\ pcRecv' = "failed"
            /\ connected' = FALSE
            /\ subscribed' = {}
       ELSE /\ pcRecv' = "notify_bp"
            /\ subscribed' = subscribed \cup {hs_char}
            /\ UNCHANGED connected
    /\ UNCHANGED <<now, pcGui, pcPlot, stop_event, queue, plotVars, pcV1,
                   sessVars, start_time, fileVars, histVars>>

\* line 114
RecvNotifyBP ==
    /\ pcRecv = "notify_bp"
    /\ IF bp_char = NoneChar
       THEN /\ pcRecv' = "failed"
            /\ connected' = FALSE
            /\ subscribed' = {}
       ELSE /\ pcRecv' = "loop"
            /\ subscribed' = subscribed \cup {bp_char}
            /\ UNCHANGED connected
    /\ UNCHANGED <<now, pcGui, pcPlot, stop_event, queue, plotVars, pcV1,
                   sessVars, start_time, fileVars, histVars>>

\* lines 115-117: the loop test and the liveness check
RecvCheck ==
    /\ pcRecv = "loop"
    /\ pcRecv' = IF stop_event \/ ~connected THEN "disconnect" ELSE "sleep"
    /\ UNCHANGED <<envVars, pcGui, pcPlot, stop_event, queue, plotVars, pcV1,
                   sessVars, start_time, fileVars, histVars>>

\* line 118: asyncio.sleep(1) returns
RecvWake ==
    /\ pcRecv = "sleep"
    /\ pcRecv' = "loop"
    /\ UNCHANGED <<envVars, pcGui, pcPlot, stop_event, queue, plotVars, pcV1,
                   sessVars, start_time, fileVars, histVars>>

\* the end of the async with: the client disconnects, main returns
RecvDisconnect ==
    /\ pcRecv = "disconnect"
    /\ pcRecv' = "exited"
    /\ connected' = FALSE
    /\ subscribed' = {}
    /\ UNCHANGED <<now, pcGui, pcPlot, stop_event, queue, plotVars, pcV1,
                   sessVars, start_time, fileVars, histVars>>

\* the event loop of receive_data runs callbacks while main awaits: in a
\* start_notify that does not raise, in the sleep, in the disconnect
RecvAwaiting ==
    \/ pcRecv \in {"sleep", "disconnect"}
    \/ pcRecv = "notify_bp" /\ bp_char /= NoneChar

\* lines 89-98: notification_callback(char, data)
notification_callback(char, data) ==
    LET val == from_bytes(data)
        sig_type == sig_type_of(char)
    IN  /\ queue' = put_nowait(queue, <<sig_type, val>>)
        /\ sent' = Append(sent, <<sig_type, val>>)
        /\ notified' = Append(notified, <<char, data>>)
        /\ UNCHANGED <<envVars, pcGui, pcRecv, pcPlot, stop_event, plotVars, pcV1,
                       sessVars, start_time, fileVars, received, sentAtStop,
                       scanned>>

\* the transport delivers a notification of a subscribed characteristic
Notify ==
    /\ RecvAwaiting
    /\ connected
    /\ Len(notified) < MaxNotif
    /\ \E char \in subscribed, data \in Payloads :
          notification_callback(char, data)


(***************************************************************************)
(* bt_client_v2.py: update_plot.                                           *)
(***************************************************************************)
\* lines 124-133: the start time, the deques, the two files opened for writing
PlotOpen ==
    /\ pcPlot = "start"
    /\ start_time' = now
    /\ hs_file' = "open"
    /\ bp_file' = "open"
    /\ pcPlot' = "loop"
    /\ UNCHANGED <<envVars, pcGui, pcRecv, stop_event, queue, plotVars, pcV1,
                   sessVars, hs_rows, bp_rows, closes, histVars>>

\* line 134: while not stop_event.is_set(); the else branch is taken when the
\* test fails
PlotCheck ==
    /\ pcPlot = "loop"
    /\ pcPlot' = IF stop_event THEN "close" ELSE "get"
    /\ UNCHANGED <<envVars, pcGui, pcRecv, stop_event, queue, plotVars, pcV1,
                   sessVars, start_time, fileVars, histVars>>

\* lines 135-139: queue.get_nowait(), or Empty and continue
PlotGet ==
    /\ pcPlot = "get"
    /\ IF queue = << >>
       THEN /\ pcPlot' = "loop"
            /\ UNCHANGED <<queue, cur, received>>
       ELSE /\ cur' = get_nowait_item(queue)
            /\ queue' = get_nowait_rest(queue)
            /\ received' = Append(received, get_nowait_item(queue))
            /\ pcPlot' = "body"
    /\ UNCHANGED <<envVars, pcGui, pcRecv, stop_event, time_data, hs_data,
                   bp_data, series, pcV1, sessVars, start_time, fileVars,
                   notified, sent, sentAtStop, scanned>>

\* lines 140-155 for the item in cur; written: whether writerow returns (True)
\* or raises, which ends the thread with the files left open
update_plot_body(written) ==
    LET sig_type == cur[1]
        val == cur[2]
        delta_t == now - start_time
        data_x == deque_append(time_data, delta_t)
        hs_new == IF sig_type = "HS" THEN deque_append(hs_data, val) ELSE hs_data
        bp_new == IF sig_type = "BP" THEN deque_append(bp_data, val) ELSE bp_data
    IN  /\ time_data' = data_x
        /\ hs_data' = hs_new
        /\ bp_data' = bp_new
        /\ series' =
              [heart_sound |->
                  IF sig_type = "HS"
                  THEN [x |-> data_x, y |-> scale_all(hs_new)]
                  ELSE series.heart_sound,
               blood_pressure |->
                  IF sig_type = "BP"
                  THEN [x |-> data_x, y |-> scale_all(bp_new)]
                  ELSE series.blood_pressure]
        /\ hs_rows' = IF sig_type = "HS" /\ written
                      THEN Append(hs_rows, <<delta_t, val>>) ELSE hs_rows
        /\ bp_rows' = IF sig_type = "BP" /\ written
                      THEN Append(bp_rows, <<delta_t, val>>) ELSE bp_rows
        /\ pcPlot' = IF written \/ sig_type \notin Kinds THEN "loop" ELSE "crashed"

PlotBody ==
    /\ pcPlot = "body"
    /\ \E written \in BOOLEAN : update_plot_body(written)
    /\ UNCHANGED <<envVars, pcGui, pcRecv, stop_event, queue, cur, pcV1,
                   sessVars, start_time, hs_file, bp_file, closes, histVars>>

\* a slip: the files are closed inside the loop, which then goes on
PlotCloseInLoop ==
    /\ pcPlot = "close"
    /\ hs_file' = "closed"
    /\ bp_file' = "closed"
    /\ closes' = [hs |-> closes.hs + 1, bp |-> closes.bp + 1]
    /\ pcPlot' = "get"
    /\ UNCHANGED <<envVars, pcGui, pcRecv, stop_event, queue, plotVars, pcV1,
                   sessVars, start_time, hs_rows, bp_rows, histVars>>

\* lines 157-159: the else of the while
PlotClose ==
    /\ pcPlot = "close"
    /\ hs_file' = "closed"
    /\ bp_file' = "closed"
    /\ closes' = [hs |-> closes.hs + 1, bp |-> closes.bp + 1]
    /\ pcPlot' = "done"
    /\ UNCHANGED <<envVars, pcGui, pcRecv, stop_event, queue, plotVars, pcV1,
                   sessVars, start_time, hs_rows, bp_rows, histVars>>

(***************************************************************************)
(* bt_client_v2.py: the main thread.                                       *)
(***************************************************************************)
\* lines 192-198: dpg.start_dearpygui() returns when the viewport is closed,
\* then stop_event.set()
GuiClose ==
    /\ pcGui = "gui"
    /\ stop_event' = TRUE
    /\ sentAtStop' = Len(sent)
    /\ pcGui' = "done"
    /\ UNCHANGED <<envVars, pcRecv, pcPlot, queue, plotVars, pcV1, sessVars,
                   start_time, fileVars, notified, sent, received, scanned>>

\* line 192: KeyboardInterrupt is raised in the main thread, nothing catches
\* it and line 197 is never reached
GuiInterrupt ==
    /\ pcGui = "gui"
    /\ pcGui' = "interrupted"
    /\ UNCHANGED <<envVars, pcRecv, pcPlot, stop_event, queue, plotVars, pcV1,
                   sessVars, start_time, fileVars, histVars>>

RecvStep ==
    \/ RecvDiscover
    \/ RecvConnect
    \/ RecvFind
    \/ RecvNotifyHS
    \/ RecvNotifyBP
    \/ RecvCheck
    \/ RecvWake
    \/ RecvDisconnect

PlotStep ==
    \/ PlotOpen
    \/ PlotCheck
    \/ PlotGet
    \/ PlotBody
    \/ PlotClose

Next ==
    \/ Tick
    \/ LinkLoss
    \/ Notify
    \/ RecvStep
    \/ PlotStep
    \/ GuiClose
    \/ GuiInterrupt

Spec == Init /\ [][Next]_vars

\* the threads are scheduled; the user and the peripheral owe nothing
FairSpec == Spec /\ WF_vars(RecvStep) /\ WF_vars(PlotStep)

(***************************************************************************)
(* bt_client.py.                                                           *)
(***************************************************************************)
\* the module body has run (lines 23-31): both files are open before main
InitV1 ==
    /\ InitCommon
    /\ scanned = << >>
    /\ pcGui = "off"
    /\ pcRecv = "off"
    /\ pcPlot = "off"
    /\ pcV1 = "discover"
    /\ hs_file = "open"
    /\ bp_file = "open"

\* main, lines 44-56
V1Discover ==
    /\ pcV1 = "discover"
    /\ \E devices \in Scans :
          /\ server' = discover_server(devices)
          /\ pcV1' = IF server' /= NoneDev THEN "connect" ELSE "exited"
    /\ UNCHANGED <<envVars, v2Vars, services, hs_char, bp_char, start_time,
                   fileVars, histVars>>

\* line 57
V1Connect ==
    /\ pcV1 = "connect"
    /\ \/ /\ \E table \in GattTables : services' = table
          /\ connected' = TRUE
          /\ pcV1' = "enumerate"
       \/ /\ pcV1' = "failed"
          /\ UNCHANGED <<connected, services>>
    /\ UNCHANGED <<now, subscribed, v2Vars, server, hs_char, bp_char,
                   start_time, fileVars, histVars>>

\* lines 60-94: the walk over the services sets hs_char and bp_char, then
\* start_time is taken
V1Enumerate ==
    /\ pcV1 = "enumerate"
    /\ hs_char' = find_char_from(services, HS_CHAR_UUID, hs_char)
    /\ bp_char' = find_char_from(services, BP_CHAR_UUID, bp_char)
    /\ start_time' = now
    /\ pcV1' = "notify_hs"
    /\ UNCHANGED <<envVars, v2Vars, server, services, fileVars, histVars>>

\* line 95
V1NotifyHS ==
    /\ pcV1 = "notify_hs"
    /\ IF hs_char = NoneChar
       THEN /\ pcV1' = "failed"
            /\ connected' = FALSE
            /\ subscribed' = {}
       ELSE /\ pcV1' = "notify_bp"
            /\ subscribed' = subscribed \cup {hs_char}
            /\ UNCHANGED connected
    /\ UNCHANGED <<now, v2Vars, sessVars, start_time, fileVars, histVars>>

\* line 96
V1NotifyBP ==
    /\ pcV1 = "notify_bp"
    /\ IF bp_char = NoneChar
       THEN /\ pcV1' = "failed"
            /\ connected' = FALSE
            /\ subscribed' = {}
       ELSE /\ pcV1' = "loop"
            /\ subscribed' = subscribed \cup {bp_char}
            /\ UNCHANGED connected
    /\ UNCHANGED <<now, v2Vars, sessVars, start_time, fileVars, histVars>>

\* lines 97-99: break when the client is no longer connected; the async with
\* ends and main returns
V1Check ==
    /\ pcV1 = "loop"
    /\ IF connected
       THEN /\ pcV1' = "sleep"
            /\ UNCHANGED subscribed
       ELSE /\ pcV1' = "exited"
            /\ subscribed' = {}
    /\ UNCHANGED <<now, connected, v2Vars, sessVars, start_time, fileVars, histVars>>

\* line 100
V1Wake ==
    /\ pcV1 = "sleep"
    /\ pcV1' = "loop"
    /\ UNCHANGED <<envVars, v2Vars, sessVars, start_time, fileVars, histVars>>

\* lines 33-40: notification_callback(char, data); both branches write
\* through hs_log_writer
v1_notification_callback(char, data) ==
    LET val == from_bytes(data)
        row == <<now - start_time, val>>
        hs_1 == IF char = hs_char THEN Append(hs_rows, row) ELSE hs_rows
        hs_2 == IF char = bp_char THEN Append(hs_1, row) ELSE hs_1
    IN  /\ hs_rows' = hs_2
        /\ notified' = Append(notified, <<char, data>>)
        /\ UNCHANGED <<envVars, v2Vars, pcV1, sessVars, start_time, hs_file,
                       bp_file, bp_rows, closes, sent, received, sentAtStop,
                       scanned>>

V1Notify ==
    /\ pcV1 = "sleep" \/ (pcV1 = "notify_bp" /\ bp_char /= NoneChar)
    /\ connected
    /\ Len(notified) < MaxNotif
    /\ \E char \in subscribed, data \in Payloads :
          v1_notification_callback(char, data)

\* lines 126-130: KeyboardInterrupt out of asyncio.run(main()), which has
\* cancelled main and closed the loop; both files are closed
V1Interrupt ==
    /\ pcV1 \in {"discover", "connect", "enumerate", "notify_hs", "notify_bp",
                 "loop", "sleep"}
    /\ pcV1' = "interrupted"
    /\ connected' = FALSE
    /\ subscribed' = {}
    /\ hs_file' = "closed"
    /\ bp_file' = "closed"
    /\ closes' = [hs |-> closes.hs + 1, bp |-> closes.bp + 1]
    /\ UNCHANGED <<now, v2Vars, sessVars, start_time, hs_rows, bp_rows, histVars>>

NextV1 ==
    \/ Tick
    \/ LinkLoss
    \/ V1Discover
    \/ V1Connect
    \/ V1Enumerate
    \/ V1NotifyHS
    \/ V1NotifyBP
    \/ V1Check
    \/ V1Wake
    \/ V1Notify
    \/ V1Interrupt

SpecV1 == InitV1 /\ [][NextV1]_vars

(***************************************************************************)
(* bt_client_v2.py on a long stream: the session is streaming, the         *)
(* consumer is in its loop, and the peripheral sends MaxLongRun            *)
(* notifications, never more than MaxBacklog ahead of the consumer.        *)
(***************************************************************************)
Streaming ==
    /\ pcGui = "gui"
    /\ pcRecv = "sleep"
    /\ pcPlot = "loop"
    /\ pcV1 = "off"
    /\ connected = TRUE
    /\ subscribed = {HsChar, BpChar}
    /\ server = TargetA
    /\ services = << <<HsChar>>, <<OtherChar, BpChar>> >>
    /\ hs_char = HsChar
    /\ bp_char = BpChar
    /\ hs_file = "open"
    /\ bp_file = "open"

InitWindow ==
    /\ Streaming
    /\ now = 0
    /\ stop_event = FALSE
    /\ queue = << >>
    /\ cur = NoItem
    /\ time_data = << >>
    /\ hs_data = << >>
    /\ bp_data = << >>
    /\ series = [heart_sound |-> NoSeries, blood_pressure |-> NoSeries]
    /\ start_time = 0
    /\ hs_rows = << >>
    /\ bp_rows = << >>
    /\ closes = [hs |-> 0, bp |-> 0]
    /\ notified = << >>
    /\ sent = << >>
    /\ received = << >>
    /\ sentAtStop = -1
    /\ scanned = << >>

\* the payload of the i-th notification of a long stream
ScriptData(i) == PayloadSeq[(i % Len(PayloadSeq)) + 1]

\* after FreeRun notifications the stream stays on one characteristic
WindowNotify ==
    /\ RecvAwaiting
    /\ connected
    /\ Len(notified) < MaxLongRun
    /\ Len(queue) < MaxBacklog
    /\ \E char \in subscribed :
          /\ Len(notified) >= FreeRun => char = notified[Len(notified)][1]
          /\ notification_callback(char, ScriptData(Len(notified)))

NextWindow ==
    \/ WindowNotify
    \/ PlotCheck
    \/ PlotGet
    \/ PlotBody

SpecWindow == InitWindow /\ [][NextWindow]_vars

(***************************************************************************)
(* What the properties speak of.                                           *)
(***************************************************************************)
\* the characteristic identifier each kind is bound to
CharOf == [HS |-> HS_CHAR_UUID, BP |-> BP_CHAR_UUID]

\* the rows of the sink of a kind
SinkRows(K) == IF K = "HS" THEN hs_rows ELSE bp_rows

\* the window buffer of a kind
Window(K) == IF K = "HS" THEN hs_data ELSE bp_data

\* the unsigned little-endian value of a payload: sum of data[i] * 256^(i-1)
RECURSIVE LittleEndianFrom(_, _)
LittleEndianFrom(data, i) ==
    IF i > Len(data) THEN 0
    ELSE data[i] * 256^(i - 1) + LittleEndianFrom(data, i + 1)

LittleEndian(data) == LittleEndianFrom(data, 1)

\* the notifications raised by the characteristic bound to a kind
IsOfKind(n, K) == n[1].uuid = CharOf[K]
NotifsOf(K) == SelectSeq(notified, LAMBDA n : IsOfKind(n, K))

\* how often a value was notified for a kind, and how often a sink holds it
NotifiedTimes(K, v) ==
    Cardinality({i \in DOMAIN notified :
        IsOfKind(notified[i], K) /\ LittleEndian(notified[i][2]) = v})
WrittenTimes(K, v) ==
    Cardinality({i \in DOMAIN SinkRows(K) : SinkRows(K)[i][2] = v})

SinksClosed == hs_file = "closed" \/ bp_file = "closed"

SessionEnded == pcRecv \in {"exited", "failed"}

\* the items whose loop body has run: all received ones but the one in hand
Pushed == IF pcPlot = "body" THEN SubSeq(received, 1, Len(received) - 1)
          ELSE received

\* the values pushed for a kind, in the order of their arrival
PushedVals(K) ==
    LET of_kind == SelectSeq(Pushed, LAMBDA item : item[1] = K)
    IN  [i \in DOMAIN of_kind |-> of_kind[i][2]]

\* the last n items of a sequence
LastN(seq, n) ==
    IF Len(seq) <= n THEN seq ELSE SubSeq(seq, Len(seq) - n + 1, Len(seq))

(***************************************************************************)
(* The claims.                                                             *)
(***************************************************************************)
\* C1: every record in the sink of kind K was produced by a notification of
\* the characteristic bound to K: no sink holds a value more often than that
\* value was notified for its kind.  Stated for both programs; bt_client.py
\* writes blood-pressure readings through hs_log_writer.
C1_SinkRouting ==
    \A K \in Kinds :
        \A i \in DOMAIN SinkRows(K) :
            WrittenTimes(K, SinkRows(K)[i][2]) <= NotifiedTimes(K, SinkRows(K)[i][2])

\* C2: when the sinks are closed, every reading that was enqueued when the
\* stop signal was set has been received and written to a sink.
C2_DrainBeforeClose ==
    SinksClosed /\ sentAtStop >= 0 =>
        /\ Len(received) >= sentAtStop
        /\ Len(hs_rows) + Len(bp_rows) >= sentAtStop

\* C3: when the consumer has left its loop and closed the sinks and the
\* session has ended, sink K holds as many records as notifications of kind
\* K were decoded.
C3_RecordCount ==
    pcPlot = "done" /\ SessionEnded =>
        \A K \in Kinds : Len(SinkRows(K)) = Len(NotifsOf(K))

\* C4: the window buffer of each kind holds at most MAX_DATA_LEN samples,
\* and they are the most recent MAX_DATA_LEN values pushed for that kind, in
\* arrival order.
C4_WindowBound ==
    \A K \in Kinds :
        /\ Len(Window(K)) <= MAX_DATA_LEN
        /\ Window(K) = LastN(PushedVals(K), MAX_DATA_LEN)

\* more than MAX_DATA_LEN heart-sound readings were pushed, and the oldest
\* one is no longer in the buffer
C4_Witness ==
    /\ pcPlot = "loop"
    /\ Len(PushedVals("HS")) > MAX_DATA_LEN
    /\ Len(hs_data) = MAX_DATA_LEN
    /\ hs_data[1] /= PushedVals("HS")[1]

\* C5: the sequence of readings received by the consumer is a prefix of the
\* sequence sent, and what was sent and not yet received is in the queue, in
\* order.
C5_ChannelOrder ==
    /\ Len(received) <= Len(sent)
    /\ received = SubSeq(sent, 1, Len(received))
    /\ sent = received \o queue

\* two different readings of one kind were received, a third is not needed
C5_Witness ==
    /\ Len(received) = 2
    /\ received[1][1] = received[2][1]
    /\ received[1][2] /= received[2][2]

\* C6: when the program has ended (main returned, raised, or was
\* interrupted), every sink file that was opened has been closed exactly
\* once.  bt_client.py closes its files only in the KeyboardInterrupt
\* handler.
C6_ClosedOnEveryExit ==
    pcV1 \in {"exited", "failed", "interrupted"} =>
        /\ hs_file /= "unopened" => hs_file = "closed" /\ closes.hs = 1
        /\ bp_file /= "unopened" => bp_file = "closed" /\ closes.bp = 1

\* C7: once the session has ended, the stop signal is eventually set, with
\* the main thread still in the GUI loop (no stop was requested from outside).
C7_SessionEndStops ==
    (SessionEnded /\ pcGui = "gui") ~> (stop_event \/ pcGui /= "gui")

\* C8: while no connection has succeeded (the session is still scanning or
\* connecting, or the scan found no server), no sink file exists.
C8_NoSinkBeforeConnect ==
    pcRecv \in {"discover", "connect"} \/ (SessionEnded /\ server = NoneDev) =>
        hs_file = "unopened" /\ bp_file = "unopened"

\* C9: once the sinks are closed the session sends nothing more on the
\* queue.
C9_NoSendAfterClose == [][SinksClosed => sent' = sent]_vars

\* C10: every notification delivered to the callback caused exactly one
\* send, of the kind bound to its characteristic and the little-endian value
\* of its payload.
C10_OneReadingPerNotification ==
    /\ Len(sent) = Len(notified)
    /\ \A i \in DOMAIN notified :
          /\ sent[i][1] \in Kinds
          /\ notified[i][1].uuid = CharOf[sent[i][1]]
          /\ sent[i][2] = LittleEndian(notified[i][2])

\* a heart-sound and a blood-pressure notification were delivered, the
\* second with two bytes
C10_Witness ==
    /\ Len(notified) = 2
    /\ notified[1] = <<HsChar, <<1>>>>
    /\ notified[2] = <<BpChar, <<1, 2>>>>
    /\ sent = << <<"HS", 1>>, <<"BP", 513>> >>

\* C11: the series handed to the renderer for each kind pairs every value
\* with a time: the x sequence and the y sequence are equally long.
\* update_plot keeps one time_data deque for both kinds.
C11_SnapshotPairs ==
    /\ Len(series.heart_sound.x) = Len(series.heart_sound.y)
    /\ Len(series.blood_pressure.x) = Len(series.blood_pressure.y)

(***************************************************************************)
(* bt_client_v2.py on arbitrary payloads: the session is streaming, the    *)
(* consumer is in its loop, and the peripheral sends MaxDecoded            *)
(* notifications of up to MaxPayloadLen bytes each.                        *)
(***************************************************************************)
ByteVals == {0, 1, 255}
BytePayloads == UNION {[1..n -> ByteVals] : n \in 0..MaxPayloadLen}

DecoderNotify ==
    /\ RecvAwaiting
    /\ connected
    /\ Len(notified) < MaxDecoded
    /\ \E char \in subscribed, data \in BytePayloads :
          notification_callback(char, data)

NextDecoder ==
    \/ DecoderNotify
    \/ PlotCheck
    \/ PlotGet
    \/ PlotBody

SpecDecoder == InitWindow /\ [][NextDecoder]_vars

\* the values in the rows of the sink of a kind
RowVals(K) == [i \in DOMAIN SinkRows(K) |-> SinkRows(K)[i][2]]

\* C12: every payload, of any length, is decoded to its unsigned
\* little-endian value and sent; while the consumer is in its loop the sink
\* of each kind holds the values of all readings of that kind whose loop
\* body has run, the value 0 of an empty payload like any other.
C12_Decoder ==
    /\ Len(sent) = Len(notified)
    /\ \A i \in DOMAIN notified : sent[i][2] = LittleEndian(notified[i][2])
    /\ pcPlot \in {"loop", "get"} => \A K \in Kinds : RowVals(K) = PushedVals(K)

\* an empty payload was notified, decoded to 0, and its row is in the sink
C12_Witness ==
    /\ notified = << <<HsChar, << >>>> >>
    /\ sent = << <<"HS", 0>> >>
    /\ pcPlot = "loop"
    /\ hs_rows = << <<0, 0>> >>

\* C13: a failed append to a sink does not end the consumer: update_plot is
\* never terminated by the exception of a writerow.
C13_WriteFailureAbsorbed == pcPlot /= "crashed"

\* whether the enumerated characteristics hold one with this identifier
HasChar(uuid) ==
    \E s \in DOMAIN services :
        \E c \in DOMAIN services[s] : services[s][c].uuid = uuid

\* C14: when one of the two required characteristics is absent from the
\* enumerated services, the session registers no subscription, never reaches
\* its streaming loop and sends no reading.
C14_MissingCharIsFatal ==
    ~HasChar(HS_CHAR_UUID) \/ ~HasChar(BP_CHAR_UUID) =>
        /\ subscribed = {}
        /\ pcRecv \notin {"loop", "sleep"}
        /\ sent = << >>

(***************************************************************************)
(* bt_client_v2.py, the start of the session on every scan result over     *)
(* two devices of the target name and one of another name.                 *)
(***************************************************************************)
TargetB == [name |-> SERVER_NAME, addr |-> 2]

LocatorScans ==
    {s \in UNION {[1..n -> Devices \cup {TargetB}] : n \in 0..MaxScan} :
        \A i, j \in DOMAIN s : i /= j => s[i] /= s[j]}

InitLocator ==
    /\ InitCommon
    /\ scanned \in LocatorScans
    /\ pcGui = "gui"
    /\ pcRecv = "discover"
    /\ pcPlot = "start"
    /\ pcV1 = "off"
    /\ hs_file = "unopened"
    /\ bp_file = "unopened"

LocDiscover == RecvDiscoverOn(scanned)

NextLocator ==
    \/ Tick
    \/ LocDiscover
    \/ RecvConnect
    \/ RecvFind
    \/ RecvNotifyHS
    \/ RecvNotifyBP

SpecLocator == InitLocator /\ [][NextLocator]_vars

\* the places of the scan result whose device carries the target name
Matches == {i \in DOMAIN scanned : scanned[i].name = SERVER_NAME}

\* C15: once discovery has returned, server is the last device of the scan
\* whose name equals the target name, and None exactly when there is none;
\* with no match the session has ended and no connection was made.
C15_DeviceLocator ==
    pcRecv /= "discover" =>
        /\ server = NoneDev <=> Matches = {}
        /\ Matches /= {} =>
              /\ server.name = SERVER_NAME
              /\ server = scanned[CHOOSE i \in Matches : \A j \in Matches : j <= i]
        /\ Matches = {} =>
              /\ pcRecv = "exited"
              /\ ~connected
              /\ services = << >>

\* two devices carry the target name; the later one was chosen and connected
C15_Witness ==
    /\ scanned = <<TargetA, TargetB>>
    /\ server = TargetB
    /\ pcRecv = "find"
    /\ connected

\* C16: every reading taken from the queue is pushed to the window of its
\* kind and written to the sink of its kind before the consumer takes the
\* next one or leaves its loop: outside the loop body the records of sink K
\* are the values pushed for K, the window of K holds the latest of them, and
\* inside the body the item in hand is the one last received, whether or not
\* the stop signal has been set in between.
C16_FanOutComplete ==
    /\ pcPlot = "body" => received /= << >> /\ cur = received[Len(received)]
    /\ pcPlot /= "body" =>
          \A K \in Kinds :
              /\ RowVals(K) = PushedVals(K)
              /\ Window(K) = LastN(PushedVals(K), MAX_DATA_LEN)

\* the session has seen the stop signal at its loop test; the consumer has
\* seen it at its loop test
SessionSawStop == stop_event /\ pcRecv \in {"disconnect", "exited"}
ConsumerSawStop == pcPlot \in {"close", "done"}

\* C17: once the stop signal is set the session leaves its loop and
\* disconnects and the consumer leaves its loop, both eventually ended; the
\* session puts nothing on the queue after it has seen the signal, and the
\* consumer takes nothing from it after it has seen the signal.
C17_CooperativeStop ==
    /\ stop_event ~> (SessionEnded /\ ~connected /\ pcPlot \in {"done", "crashed"})
    /\ [][/\ SessionSawStop => sent' = sent
          /\ ConsumerSawStop => received' = received]_vars

\* the heart-sound subscription has succeeded at some time
HsSubscribedOnce == hs_char /= NoneChar /\ pcRecv /= "notify_hs"

\* the elapsed times of the records of a sink
RowTimes(K) == [i \in DOMAIN SinkRows(K) |-> SinkRows(K)[i][1]]

\* C18: the start time exists only once the first subscription has
\* succeeded, no record is stamped before it, and within each sink the
\* elapsed times of successive records do not decrease.
C18_ElapsedReference ==
    /\ start_time /= NoTime => HsSubscribedOnce
    /\ \A K \in Kinds :
          /\ \A i \in DOMAIN RowTimes(K) : RowTimes(K)[i] >= 0
          /\ \A i, j \in DOMAIN RowTimes(K) :
                i <= j => RowTimes(K)[i] <= RowTimes(K)[j]

(***************************************************************************)
(* Both programs side by side: a behaviour is a run of bt_client_v2.py or  *)
(* a run of bt_client.py.                                                  *)
(***************************************************************************)
InitBoth == Init \/ InitV1

NextBoth == Next \/ NextV1

SpecBoth == InitBoth /\ [][NextBoth]_vars

\* the file of a kind
SinkFile(K) == IF K = "HS" THEN hs_file ELSE bp_file

\* C19: no step appends a record to a sink whose file has been closed.
C19_NoAppendAfterClose ==
    [][\A K \in Kinds :
          SinkFile(K) = "closed" =>
              (IF K = "HS" THEN hs_rows' = hs_rows ELSE bp_rows' = bp_rows)]_vars

\* bt_client_v2.py: the consumer has closed sinks that hold records while a
\* reading sent after the stop signal waits on the queue
C19_Witness ==
    /\ pcPlot = "done"
    /\ hs_file = "closed"
    /\ hs_rows /= << >>
    /\ queue /= << >>

=============================================================================
